---- MODULE Spec2Model ----
(***************************************************************************)
(* A model of src/helpers.py: the helpers of a text-summarization training *)
(* pipeline.  Strings are sequences of one-character strings, token lists  *)
(* are sequences of strings, Python sets are TLA+ sets, Python tuples and  *)
(* lists are TLA+ sequences.  Python indices are 0-based and are kept so   *)
(* in the loops; Slice converts them.                                      *)
(***************************************************************************)
EXTENDS Integers, Sequences, FiniteSets, TLC

VARIABLES
    \* block_trigrams: its arguments, the caller's position, the returned
    \* value, the locals of the running call, the n-gram set object the last
    \* _get_ngrams call left on the heap, and whether the running call repeats
    \* the arguments of the call before it
    c, p, pc, result, tri_c, k, leftover, repeat,
    \* load_json
    json_file, file_path, file_extension, documents, logged, lj_pc,
    \* StepCheckpointCallback and the trainer and file system it acts on
    step_interval, num_saves_to_keep, save_path, global_step, files,
    \* _get_word_ngrams
    n, sentences, wn_result, wn_pc,
    \* pad
    data, pad_id, width, pad_on_left, rtn_data, pad_pc

btVars == <<c, p, pc, result, tri_c, k, leftover, repeat>>
ljVars == <<json_file, file_path, file_extension, documents, logged, lj_pc>>
ckVars == <<step_interval, num_saves_to_keep, save_path, global_step, files>>
wnVars == <<n, sentences, wn_result, wn_pc>>
padVars == <<data, pad_id, width, pad_on_left, rtn_data, pad_pc>>
vars == <<btVars, ljVars, ckVars, wnVars, padVars>>

(***************************************************************************)
(* Bounds                                                                   *)
(***************************************************************************)
\* the longest text offered to block_trigrams, in words
MaxTokens == 4
\* the longest list of accepted spans
MaxSpans == 2
\* _get_word_ngrams: the most sentences, the longest sentence, the largest n
MaxSentences == 2
MaxSentLen == 2
MaxN == 3
\* pad: the most rows, the longest row, the largest width
MaxRows == 2
MaxRowLen == 2
MaxWidth == 3
\* StepCheckpointCallback: the largest step_interval and num_saves_to_keep,
\* and the last global_step of the training run
MaxInterval == 2
MaxKeep == 2
MaxStep == 8
\* load_json: the longest file name, in lexemes
MaxNameLen == 4

Min(a, b) == IF a < b THEN a ELSE b

\* Python's seq[lo:hi] for 0 <= lo: the elements at 0-based lo .. hi-1,
\* cut at the end of seq; empty when hi <= lo
Slice(seq, lo, hi) == SubSeq(seq, lo + 1, Min(hi, Len(seq)))

(***************************************************************************)
(* str.split() with no argument: runs of whitespace separate the tokens,   *)
(* leading and trailing whitespace gives no empty token.                   *)
(***************************************************************************)
\* the whitespace characters a TLA+ string can hold (Python also splits on
\* the vertical tab and the Unicode spaces)
Whitespace == {" ", "\t", "\n", "\r", "\f"}
IsSpace(ch) == ch \in Whitespace

RECURSIVE split_from(_, _, _, _)
split_from(s, i, cur, acc) ==
    IF i > Len(s)
    THEN IF cur # <<>> THEN Append(acc, cur) ELSE acc
    ELSE IF IsSpace(s[i])
         THEN split_from(s, i + 1, <<>>,
                         IF cur # <<>> THEN Append(acc, cur) ELSE acc)
         ELSE split_from(s, i + 1, Append(cur, s[i]), acc)

split(s) == split_from(s, 1, <<>>, <<>>)

(***************************************************************************)
(* _get_ngrams(n, text)                                                     *)
(***************************************************************************)
\* a faulty variant: the set is not created afresh, the last one built is
\* reused (a mutable default argument)
StaleNgramSet == leftover
\* ngram_set = set()
NewNgramSet == {}

\* for i in range(max_index_ngram_start + 1): ngram_set.add(tuple(text[i:i+n]))
RECURSIVE ngrams_loop(_, _, _, _, _)
ngrams_loop(nn, text, i, stop, ngram_set) ==
    IF i >= stop THEN ngram_set
    ELSE ngrams_loop(nn, text, i + 1, stop,
                     ngram_set \cup {Slice(text, i, i + nn)})

\* faulty variants: the range is one short, or one long
_get_ngrams_short(nn, text) ==
    ngrams_loop(nn, text, 0, Len(text) - nn, NewNgramSet)
_get_ngrams_long(nn, text) ==
    ngrams_loop(nn, text, 0, (Len(text) - nn) + 2, NewNgramSet)
_get_ngrams(nn, text) ==
    LET text_length == Len(text)
        max_index_ngram_start == text_length - nn
    IN  ngrams_loop(nn, text, 0, max_index_ngram_start + 1, NewNgramSet)

(***************************************************************************)
(* block_trigrams(c, p)                                                     *)
(***************************************************************************)
\* one pass of "for s in p": True at the first span sharing a trigram
RECURSIVE block_loop(_, _, _)
block_loop(tri, spans, j) ==
    IF j > Len(spans) THEN FALSE
    ELSE LET tri_s == _get_ngrams(3, split(spans[j]))
         IN  IF Cardinality(tri \cap tri_s) > 0 THEN TRUE
             ELSE block_loop(tri, spans, j + 1)

\* a faulty variant: "return False" indented into the loop, only p[0] is examined
block_trigrams_first_only(cc, spans) ==
    LET tri == _get_ngrams(3, split(cc))
    IN  /\ Len(spans) > 0
        /\ Cardinality(tri \cap _get_ngrams(3, split(spans[1]))) > 0
\* a faulty variant: the sets are compared for equality, not intersected
block_trigrams_equal_sets(cc, spans) ==
    LET tri == _get_ngrams(3, split(cc))
    IN  \E j \in 1..Len(spans) :
            /\ tri # {}
            /\ tri = _get_ngrams(3, split(spans[j]))
\* a faulty variant: the loop starts at the second span (for s in p[1:])
block_trigrams_skip_first(cc, spans) ==
    LET tri == _get_ngrams(3, split(cc))
    IN  block_loop(tri, spans, 2)
block_trigrams(cc, spans) ==
    LET tri == _get_ngrams(3, split(cc))
    IN  block_loop(tri, spans, 1)

(***************************************************************************)
(* The texts offered to block_trigrams: every run of at most MaxTokens     *)
(* consecutive words of a document (the sentences a decoding loop cuts     *)
(* from it), laid out with single spaces or with ragged whitespace.        *)
(***************************************************************************)
Doc == << <<"a">>, <<"b", "c">>, <<"a">>, <<"b", "c">>, <<"a">> >>

DocRuns ==
    {<<>>} \cup {SubSeq(Doc, i, Min(i + len - 1, Len(Doc))) :
                    i \in 1..Len(Doc), len \in 1..MaxTokens}

RECURSIVE Join(_, _)
Join(toks, sep) ==
    IF toks = <<>> THEN <<>>
    ELSE IF Len(toks) = 1 THEN toks[1]
    ELSE toks[1] \o sep \o Join(Tail(toks), sep)

Plain(toks) == Join(toks, <<" ">>)
Ragged(toks) == <<" ">> \o Join(toks, <<"\t", " ">>) \o <<"\n">>

Texts == {Plain(t) : t \in DocRuns} \cup {Ragged(t) : t \in DocRuns}
SpanLists == UNION {[1..len -> Texts] : len \in 0..MaxSpans}
PlainTexts == {Plain(t) : t \in DocRuns}
PlainLists == UNION {[1..len -> PlainTexts] : len \in 0..MaxSpans}

(***************************************************************************)
(* The components a specification does not exercise stay as constructed.   *)
(***************************************************************************)
BtIdle ==
    /\ c = <<>> /\ p = <<>> /\ pc = "idle" /\ result = FALSE
    /\ tri_c = {} /\ k = 0 /\ leftover = {} /\ repeat = FALSE
LjIdle ==
    /\ json_file = <<>> /\ file_path = <<>> /\ file_extension = <<>>
    /\ documents = "unbound" /\ logged = FALSE /\ lj_pc = "idle"
CkIdle ==
    /\ step_interval = 1 /\ num_saves_to_keep = 1 /\ save_path = <<>>
    /\ global_step = 0 /\ files = {}
WnIdle ==
    /\ n = 1 /\ sentences = <<>> /\ wn_result = {} /\ wn_pc = "idle"
PadIdle ==
    /\ data = <<>> /\ pad_id = 0 /\ width = <<>> /\ pad_on_left = FALSE
    /\ rtn_data = <<>> /\ pad_pc = "idle"

(***************************************************************************)
(* Spec: one call block_trigrams(c, p) on every candidate and every list   *)
(* of accepted spans within the bounds.                                    *)
(***************************************************************************)
Init ==
    /\ c \in Texts
    /\ p \in SpanLists
    /\ pc = "ready" /\ result = FALSE
    /\ tri_c = {} /\ k = 0 /\ leftover = {} /\ repeat = FALSE
    /\ LjIdle /\ CkIdle /\ WnIdle /\ PadIdle

\* result = block_trigrams(c, p)
Call ==
    /\ pc = "ready"
    /\ result' = block_trigrams(c, p)
    /\ pc' = "done"
    /\ UNCHANGED <<c, p, tri_c, k, leftover, repeat>>
    /\ UNCHANGED <<ljVars, ckVars, wnVars, padVars>>

Next == Call

Spec == Init /\ [][Next]_vars

(***************************************************************************)
(* What the claims speak of, stated without the code's loops.              *)
(***************************************************************************)
\* the contiguous 3-token windows of a token list
Windows(len, toks) ==
    {SubSeq(toks, i, i + len - 1) : i \in 1..(Len(toks) - len + 1)}

SharesTrigram(s, t) == Windows(3, split(s)) \cap Windows(3, split(t)) # {}

\* the number of whitespace-separated tokens of a string: the positions
\* where a token starts
TokenCount(s) ==
    Cardinality({i \in 1..Len(s) :
                    /\ ~IsSpace(s[i])
                    /\ (i = 1 \/ IsSpace(s[i - 1]))})

\* the permutations of a list
Perms(seq) ==
    {[i \in 1..Len(seq) |-> seq[f[i]]] :
        f \in {g \in [1..Len(seq) -> 1..Len(seq)] :
                  \A i, j \in 1..Len(seq) : i # j => g[i] # g[j]}}

\* C1: block_trigrams(c, p) returns true exactly when some element of p
\* shares a 3-token window with c (windows taken over the whitespace split
\* of each string); it returns false otherwise, and so for every empty p.
C1_BlockedIffSharedTrigram ==
    pc = "done" =>
        /\ result <=> (\E j \in 1..Len(p) : SharesTrigram(c, p[j]))
        /\ (p = <<>> => result = FALSE)

\* C1's case: the first accepted span shares nothing with the candidate, a
\* later one shares one of its two trigrams, and the call returned true.
C1_Witness ==
    /\ pc = "done" /\ result = TRUE /\ Len(p) = 2
    /\ ~SharesTrigram(c, p[1]) /\ SharesTrigram(c, p[2])
    /\ Cardinality(Windows(3, split(c))) = 2
    /\ Windows(3, split(c)) # Windows(3, split(p[2]))

\* C2: a candidate with fewer than 3 whitespace-separated tokens (the empty
\* string and a whitespace-only string among them) is never blocked,
\* whatever the accepted list holds.
C2_ShortCandidateNeverBlocked ==
    (pc = "done" /\ TokenCount(c) < 3) => result = FALSE

\* C2's case: a two-token candidate that is itself in the accepted list,
\* next to a span that has trigrams.
C2_Witness ==
    /\ pc = "done" /\ TokenCount(c) = 2 /\ Len(p) = 2
    /\ p[1] = c /\ TokenCount(p[2]) >= 3
    /\ result = FALSE

\* C2's corner: a whitespace-only candidate.
C2_WitnessBlank ==
    /\ pc = "done" /\ c # <<>> /\ TokenCount(c) = 0 /\ p # <<>>

\* C3: a candidate of at least 3 tokens that equals, character for
\* character, an element of the accepted list at any position is blocked.
C3_EqualSpanBlocked ==
    (/\ pc = "done"
     /\ TokenCount(c) >= 3
     /\ \E j \in 1..Len(p) : p[j] = c) => result = TRUE

\* C3's case: the equal span is the last of the list and the span before it
\* shares nothing with the candidate.
C3_Witness ==
    /\ pc = "done" /\ TokenCount(c) >= 3 /\ Len(p) = 2
    /\ p[2] = c /\ ~SharesTrigram(c, p[1]) /\ TokenCount(p[1]) >= 3
    /\ result = TRUE

\* C4: every permutation of the accepted list gives the result the call
\* gave.
C4_OrderIndependent ==
    pc = "done" => \A q \in Perms(p) : block_trigrams(c, q) = result

\* C4's case: two different spans of which only the second blocks.
C4_Witness ==
    /\ pc = "done" /\ Len(p) = 2 /\ p[1] # p[2]
    /\ ~SharesTrigram(c, p[1]) /\ SharesTrigram(c, p[2])
    /\ result = TRUE

(***************************************************************************)
(* SpecDecode: a decoding session.  The loop offers a candidate, asks      *)
(* block_trigrams about it and the spans accepted so far, appends it when  *)
(* the answer is false and drops it otherwise; once MaxSpans spans are     *)
(* accepted it appends no more.                                            *)
(***************************************************************************)
InitDecode ==
    /\ c = <<>> /\ p = <<>> /\ pc = "idle" /\ result = FALSE
    /\ tri_c = {} /\ k = 0 /\ leftover = {} /\ repeat = FALSE
    /\ LjIdle /\ CkIdle /\ WnIdle /\ PadIdle

Offer(t) ==
    /\ pc = "idle"
    /\ c' = t
    /\ pc' = "offered"
    /\ UNCHANGED <<p, result, tri_c, k, leftover, repeat>>
    /\ UNCHANGED <<ljVars, ckVars, wnVars, padVars>>

Judge ==
    /\ pc = "offered"
    /\ result' = block_trigrams(c, p)
    /\ pc' = "judged"
    /\ UNCHANGED <<c, p, tri_c, k, leftover, repeat>>
    /\ UNCHANGED <<ljVars, ckVars, wnVars, padVars>>

Keep ==
    /\ pc = "judged"
    /\ result = FALSE
    /\ Len(p) < MaxSpans
    /\ p' = Append(p, c)
    /\ pc' = "idle"
    /\ UNCHANGED <<c, result, tri_c, k, leftover, repeat>>
    /\ UNCHANGED <<ljVars, ckVars, wnVars, padVars>>

Discard ==
    /\ pc = "judged"
    /\ (result = TRUE \/ Len(p) >= MaxSpans)
    /\ pc' = "idle"
    /\ UNCHANGED <<c, p, result, tri_c, k, leftover, repeat>>
    /\ UNCHANGED <<ljVars, ckVars, wnVars, padVars>>

NextDecode ==
    \/ \E t \in Texts : Offer(t)
    \/ Judge
    \/ Keep
    \/ Discard

SpecDecode == InitDecode /\ [][NextDecode]_vars

\* C8: in a decoding session that appends a candidate only when
\* block_trigrams returned false for it, no two entries of the accepted
\* list at distinct positions have a trigram in common.
C8_AcceptedPairwiseDisjoint ==
    \A i, j \in 1..Len(p) : i # j => ~SharesTrigram(p[i], p[j])

\* C8's case: two accepted spans with trigrams each, and a candidate that
\* shares a trigram with the second of them was just dropped.
C8_Witness ==
    /\ pc = "idle" /\ Len(p) = 2 /\ result = TRUE
    /\ TokenCount(p[1]) >= 3 /\ TokenCount(p[2]) >= 3
    /\ ~SharesTrigram(c, p[1]) /\ SharesTrigram(c, p[2])

(***************************************************************************)
(* SpecCalls: calls of block_trigrams one after another, each run line by  *)
(* line, with complete calls of other threads between any two lines.       *)
(* A call holds only locals, which are gone when it returns; leftover is   *)
(* the n-gram set object the last _get_ngrams call built, which nothing    *)
(* reads again.                                                            *)
(***************************************************************************)
InitCalls ==
    /\ c \in PlainTexts
    /\ p \in PlainLists
    /\ pc = "ready" /\ result = FALSE
    /\ tri_c = {} /\ k = 0 /\ leftover = {} /\ repeat = FALSE
    /\ LjIdle /\ CkIdle /\ WnIdle /\ PadIdle

\* tri_c = _get_ngrams(3, c.split())
Enter ==
    /\ pc = "ready"
    /\ tri_c' = _get_ngrams(3, split(c))
    /\ leftover' = tri_c'
    /\ k' = 0
    /\ pc' = "loop"
    /\ UNCHANGED <<c, p, result, repeat>>
    /\ UNCHANGED <<ljVars, ckVars, wnVars, padVars>>

\* for s in p: tri_s = ...; if len(tri_c.intersection(tri_s)) > 0: return True
Examine ==
    /\ pc = "loop"
    /\ k < Len(p)
    /\ LET tri_s == _get_ngrams(3, split(p[k + 1]))
       IN  /\ leftover' = tri_s
           /\ IF Cardinality(tri_c \cap tri_s) > 0
              THEN /\ result' = TRUE /\ pc' = "done"
                   /\ tri_c' = {} /\ k' = 0
              ELSE /\ k' = k + 1
                   /\ UNCHANGED <<result, pc, tri_c>>
    /\ UNCHANGED <<c, p, repeat>>
    /\ UNCHANGED <<ljVars, ckVars, wnVars, padVars>>

\* return False
Exhaust ==
    /\ pc = "loop"
    /\ k >= Len(p)
    /\ result' = FALSE
    /\ pc' = "done"
    /\ tri_c' = {} /\ k' = 0
    /\ UNCHANGED <<c, p, leftover, repeat>>
    /\ UNCHANGED <<ljVars, ckVars, wnVars, padVars>>

\* another thread runs _get_ngrams inside a call of its own
OtherCall(t) ==
    /\ pc \in {"ready", "loop"}
    /\ leftover' = _get_ngrams(3, split(t))
    /\ leftover' # leftover
    /\ UNCHANGED <<c, p, pc, result, tri_c, k, repeat>>
    /\ UNCHANGED <<ljVars, ckVars, wnVars, padVars>>

\* the caller calls again with the same arguments
Again ==
    /\ pc = "done"
    /\ pc' = "ready"
    /\ repeat' = TRUE
    /\ UNCHANGED <<c, p, result, tri_c, k, leftover>>
    /\ UNCHANGED <<ljVars, ckVars, wnVars, padVars>>

\* the caller calls again with another candidate
NewCandidate(t) ==
    /\ pc = "done"
    /\ t # c
    /\ c' = t
    /\ pc' = "ready"
    /\ repeat' = FALSE
    /\ UNCHANGED <<p, result, tri_c, k, leftover>>
    /\ UNCHANGED <<ljVars, ckVars, wnVars, padVars>>

\* the caller calls again with a longer list, or a fresh one
NewSpans ==
    /\ pc = "done"
    /\ \/ Len(p) < MaxSpans /\ p' = Append(p, c)
       \/ p # <<>> /\ p' = <<>>
    /\ pc' = "ready"
    /\ repeat' = FALSE
    /\ UNCHANGED <<c, result, tri_c, k, leftover>>
    /\ UNCHANGED <<ljVars, ckVars, wnVars, padVars>>

NextCalls ==
    \/ Enter
    \/ Examine
    \/ Exhaust
    \/ \E t \in PlainTexts : OtherCall(t)
    \/ Again
    \/ \E t \in PlainTexts : NewCandidate(t)
    \/ NewSpans

SpecCalls == InitCalls /\ [][NextCalls]_vars

\* C5: block_trigrams keeps no state between calls and modifies neither
\* argument: while a call runs, whatever other calls run between its
\* lines, c and p stay as passed; the value it returns is the one the
\* arguments alone determine; and a call that repeats the arguments of the
\* call before it returns what that call returned.
C5_PureAndFrame ==
    [][/\ (pc \in {"ready", "loop"} => (c' = c /\ p' = p))
       /\ ((pc = "loop" /\ pc' = "done") =>
              /\ result' = (\E j \in 1..Len(p) : SharesTrigram(c, p[j]))
              /\ (repeat => result' = result))]_vars

\* C5's case: a call that repeats the arguments of the call before it has
\* returned false on a list of two spans with trigrams, while the n-gram
\* set left by another thread's call holds a trigram of the candidate.
C5_Witness ==
    /\ pc = "done" /\ repeat /\ result = FALSE /\ Len(p) = 2
    /\ TokenCount(c) >= 3 /\ TokenCount(p[1]) >= 3
    /\ leftover \cap Windows(3, split(c)) # {}

(***************************************************************************)
(* _get_word_ngrams(n, sentences).  The value is [status, value]: status   *)
(* is "returned", or the exception that ended the call.                    *)
(***************************************************************************)
\* sum(sentences, []): start + sentences[0] + sentences[1] + ...
RECURSIVE sum_lists(_, _)
sum_lists(lists, start) ==
    IF lists = <<>> THEN start
    ELSE sum_lists(Tail(lists), start \o Head(lists))

\* a faulty variant: the n-grams of each sentence, none across a boundary
RECURSIVE ngrams_per_sentence(_, _)
ngrams_per_sentence(nn, sents) ==
    IF sents = <<>> THEN {}
    ELSE _get_ngrams(nn, Head(sents)) \cup ngrams_per_sentence(nn, Tail(sents))
_get_word_ngrams_per_sentence(nn, sents) ==
    IF ~(Len(sents) > 0) \/ ~(nn > 0)
    THEN [status |-> "AssertionError", value |-> {}]
    ELSE [status |-> "returned", value |-> ngrams_per_sentence(nn, sents)]
_get_word_ngrams(nn, sents) ==
    IF ~(Len(sents) > 0) THEN [status |-> "AssertionError", value |-> {}]
    ELSE IF ~(nn > 0) THEN [status |-> "AssertionError", value |-> {}]
    ELSE LET words == sum_lists(sents, <<>>)
         IN  [status |-> "returned", value |-> _get_ngrams(nn, words)]

Tokens == {"a", "b"}
Sentences == UNION {[1..len -> Tokens] : len \in 0..MaxSentLen}
SentenceLists == UNION {[1..len -> Sentences] : len \in 0..MaxSentences}

InitNgrams ==
    /\ n \in -1..MaxN
    /\ sentences \in SentenceLists
    /\ wn_result = {} /\ wn_pc = "ready"
    /\ BtIdle /\ LjIdle /\ CkIdle /\ PadIdle

WordNgrams ==
    /\ wn_pc = "ready"
    /\ LET r == _get_word_ngrams(n, sentences)
       IN  wn_pc' = r.status /\ wn_result' = r.value
    /\ UNCHANGED <<n, sentences>>
    /\ UNCHANGED <<btVars, ljVars, ckVars, padVars>>

NextNgrams == WordNgrams

SpecNgrams == InitNgrams /\ [][NextNgrams]_vars

\* the sentences laid end to end
RECURSIVE Flatten(_)
Flatten(sents) ==
    IF sents = <<>> THEN <<>>
    ELSE sents[1] \o Flatten(Tail(sents))

\* C9: for n > 0 and a non-empty list of sentences _get_word_ngrams returns
\* the set of the contiguous length-n windows of the sentences laid end to
\* end (windows across a sentence boundary included, nothing when fewer
\* than n tokens in all); for an empty list or n <= 0 an assertion fails.
C9_WordNgramsOfConcatenation ==
    wn_pc # "ready" =>
        IF sentences = <<>> \/ n <= 0
        THEN wn_pc = "AssertionError"
        ELSE /\ wn_pc = "returned"
             /\ wn_result = Windows(n, Flatten(sentences))
             /\ (Len(Flatten(sentences)) < n => wn_result = {})

\* C9's case: a returned set holding a window that lies in no sentence.
C9_Witness ==
    /\ wn_pc = "returned" /\ n = 2 /\ Len(sentences) = 2
    /\ \E w \in wn_result :
          \A i \in 1..Len(sentences) : w \notin Windows(n, sentences[i])

\* C9's corners: the failed assertions.
C9_WitnessAssert ==
    /\ wn_pc = "AssertionError" /\ sentences # <<>> /\ n = 0

(***************************************************************************)
(* pad(data, pad_id, width=None, pad_on_left=False).  width is None when   *)
(* not given and Given(w) otherwise.  The value is [status, value].        *)
(***************************************************************************)
None == <<>>
Given(w) == <<w>>
\* "not width": None and 0 are both falsy
Falsy(w) == w = None \/ w = Given(0)

\* [pad_id] * count: empty when count <= 0
Repeat(x, count) == [i \in 1..count |-> x]

\* max(len(d) for d in data), for non-empty data
MaxLen(rows) ==
    CHOOSE m \in {Len(rows[i]) : i \in 1..Len(rows)} :
        \A i \in 1..Len(rows) : Len(rows[i]) <= m

\* a faulty variant: the pad goes on the wrong side
pad_wrong_side(rows, id, w, on_left) ==
    IF Falsy(w) /\ rows = <<>>
    THEN [status |-> "ValueError", value |-> <<>>]
    ELSE LET w2 == IF Falsy(w) THEN MaxLen(rows) ELSE w[1]
         IN  [status |-> "returned",
              value |-> [i \in 1..Len(rows) |->
                          IF on_left
                          THEN rows[i] \o Repeat(id, w2 - Len(rows[i]))
                          ELSE Repeat(id, w2 - Len(rows[i])) \o rows[i]]]
pad(rows, id, w, on_left) ==
    \* if not width: width = max(len(d) for d in data)
    IF Falsy(w) /\ rows = <<>>
    THEN [status |-> "ValueError", value |-> <<>>]
    ELSE LET w2 == IF Falsy(w) THEN MaxLen(rows) ELSE w[1]
         IN  [status |-> "returned",
              value |-> [i \in 1..Len(rows) |->
                          IF on_left
                          THEN Repeat(id, w2 - Len(rows[i])) \o rows[i]
                          ELSE rows[i] \o Repeat(id, w2 - Len(rows[i]))]]

Cells == {1, 2}
PadIds == {0, 1}
Rows == UNION {[1..len -> Cells] : len \in 0..MaxRowLen}
RowLists == UNION {[1..len -> Rows] : len \in 0..MaxRows}

InitPad ==
    /\ data \in RowLists
    /\ pad_id \in PadIds
    /\ width \in {None} \cup {Given(w) : w \in 0..MaxWidth}
    /\ pad_on_left \in BOOLEAN
    /\ rtn_data = <<>> /\ pad_pc = "ready"
    /\ BtIdle /\ LjIdle /\ CkIdle /\ WnIdle

Pad ==
    /\ pad_pc = "ready"
    /\ LET r == pad(data, pad_id, width, pad_on_left)
       IN  pad_pc' = r.status /\ rtn_data' = r.value
    /\ UNCHANGED <<data, pad_id, width, pad_on_left>>
    /\ UNCHANGED <<btVars, ljVars, ckVars, wnVars>>

NextPad == Pad

SpecPad == InitPad /\ [][NextPad]_vars

\* row d padded to length w: the elements of d in order, then (before them
\* when on the left) copies of pad_id
PaddedTo(out, d, w) ==
    /\ Len(out) = w
    /\ IF pad_on_left
       THEN /\ \A i \in 1..(w - Len(d)) : out[i] = pad_id
            /\ \A i \in 1..Len(d) : out[(w - Len(d)) + i] = d[i]
       ELSE /\ \A i \in 1..Len(d) : out[i] = d[i]
            /\ \A i \in (Len(d) + 1)..w : out[i] = pad_id

\* the length of the longest row, 0 for no rows
LongestRow(rows) ==
    IF rows = <<>> THEN 0
    ELSE CHOOSE m \in 0..MaxRowLen + 1 :
            /\ \E i \in 1..Len(rows) : Len(rows[i]) = m
            /\ \A i \in 1..Len(rows) : Len(rows[i]) <= m

\* C10 as stated: pad returns the rows in order, each of length exactly
\* width (the given width, or the longest row when none is given and there
\* are rows), the original elements kept in order and pad_id added after
\* them (before them when pad_on_left).
C10_Original ==
    (pad_pc # "ready" /\ ~(width = None /\ data = <<>>)) =>
        /\ pad_pc = "returned"
        /\ Len(rtn_data) = Len(data)
        /\ LET w == IF width = None THEN LongestRow(data) ELSE width[1]
           IN  \A i \in 1..Len(data) :
                   /\ Len(rtn_data[i]) = w
                   /\ w >= Len(data[i])
                   /\ PaddedTo(rtn_data[i], data[i], w)

\* C10 as amended: a width of 0 counts as not given; with no width given and
\* no rows, max() raises ValueError; otherwise pad returns the rows in
\* order, each row no longer than width brought to length exactly width as
\* stated, and each row longer than width returned as it is.
C10_PadsUpToWidth ==
    pad_pc # "ready" =>
        IF (width = None \/ width = Given(0)) /\ data = <<>>
        THEN pad_pc = "ValueError"
        ELSE /\ pad_pc = "returned"
             /\ Len(rtn_data) = Len(data)
             /\ LET w == IF width = None \/ width = Given(0)
                         THEN LongestRow(data) ELSE width[1]
                IN  \A i \in 1..Len(data) :
                        IF Len(data[i]) <= w
                        THEN PaddedTo(rtn_data[i], data[i], w)
                        ELSE rtn_data[i] = data[i]

\* C10's case: a given width with one row shorter and one row longer than
\* it, padded on the left.
C10_Witness ==
    /\ pad_pc = "returned" /\ width = Given(1) /\ pad_on_left /\ Len(data) = 2
    /\ Len(data[1]) = 0 /\ Len(data[2]) = 2
    /\ rtn_data[1] = <<pad_id>> /\ rtn_data[2] = data[2]

(***************************************************************************)
(* StepCheckpointCallback.  Every path the callback builds names a file    *)
(* "<save_name>.<step>.ckpt" in some directory: a path is [dir, step], dir *)
(* the sequence of the directory's components ("" is the empty sequence).  *)
(* files holds the checkpoint files that exist, each as the path that      *)
(* leads to it from the working directory.                                 *)
(***************************************************************************)
\* os.path.join(save_path, save_name + "." + str(step) + ".ckpt")
path_join(dir, step) == [dir |-> dir, step |-> step]

\* the file a relative path names: "." components lead nowhere
RECURSIVE DropDots(_)
DropDots(dir) ==
    IF dir = <<>> THEN <<>>
    ELSE IF Head(dir) = "." THEN DropDots(Tail(dir))
    ELSE <<Head(dir)>> \o DropDots(Tail(dir))

Resolve(path) == [dir |-> DropDots(path.dir), step |-> path.step]

\* on_batch_end(trainer, pl_module): the files after the call
on_batch_end(fs, step) ==
    IF step % step_interval = 0 /\ ~(step = 0)
    THEN LET final_save_location == path_join(save_path, step)
             \* trainer.save_checkpoint(final_save_location)
             saved == fs \cup {Resolve(final_save_location)}
             offset == step_interval * num_saves_to_keep
             \* save_name + "." + str(global_step - offset) + ".ckpt"
             path_to_remove == [dir |-> <<>>, step |-> step - offset]
         IN  \* if os.path.isfile(path_to_remove): os.remove(path_to_remove)
             IF Resolve(path_to_remove) \in saved
             THEN saved \ {Resolve(path_to_remove)}
             ELSE saved
    ELSE fs

SavePaths == {<<>>, <<".">>, <<"ckpts">>, <<".", "ckpts">>}

InitCkpt ==
    /\ step_interval \in 1..MaxInterval
    /\ num_saves_to_keep \in 1..MaxKeep
    /\ save_path \in SavePaths
    /\ global_step = 0
    /\ files = {}
    /\ BtIdle /\ LjIdle /\ WnIdle /\ PadIdle

\* the trainer ends a batch: it calls the callback, then counts the step
BatchEnd ==
    /\ global_step < MaxStep
    /\ files' = on_batch_end(files, global_step)
    /\ global_step' = global_step + 1
    /\ UNCHANGED <<step_interval, num_saves_to_keep, save_path>>
    /\ UNCHANGED <<btVars, ljVars, wnVars, padVars>>

NextCkpt == BatchEnd

SpecCkpt == InitCkpt /\ [][NextCkpt]_vars

\* C7: whatever step_interval >= 1, num_saves_to_keep >= 1 and save_path,
\* after any number of on_batch_end calls with global_step counting up from
\* 0, at most num_saves_to_keep checkpoint files written by the callback
\* exist.
C7_AtMostKeepCheckpoints ==
    Cardinality(files) <= num_saves_to_keep

(***************************************************************************)
(* load_json(json_file).  A file name is a sequence of lexemes: runs of    *)
(* letters, "." and "/".  The named file exists and holds the JSON value   *)
(* "parsed".                                                               *)
(***************************************************************************)
\* the index of the last "/" of a name, 0 when there is none
LastSep(name) ==
    IF \E i \in 1..Len(name) : name[i] = "/"
    THEN CHOOSE i \in 1..Len(name) :
            /\ name[i] = "/"
            /\ \A j \in (i + 1)..Len(name) : name[j] # "/"
    ELSE 0

\* the index of the last "." of a name, 0 when there is none
LastDot(name) ==
    IF \E i \in 1..Len(name) : name[i] = "."
    THEN CHOOSE i \in 1..Len(name) :
            /\ name[i] = "."
            /\ \A j \in (i + 1)..Len(name) : name[j] # "."
    ELSE 0

\* os.path.splitext(name): the extension starts at the last "." when it
\* lies in the last component and something other than "." precedes it
\* there
splitext(name) ==
    LET sepIndex == LastSep(name)
        dotIndex == LastDot(name)
    IN  IF /\ dotIndex > sepIndex
           /\ \E j \in (sepIndex + 1)..(dotIndex - 1) : name[j] # "."
        THEN <<SubSeq(name, 1, dotIndex - 1), SubSeq(name, dotIndex, Len(name))>>
        ELSE <<name, <<>>>>

\* load_json: [status, documents, file_path, logged]
load_json(name) ==
    LET parts == splitext(name)
        ext == parts[2]
    IN  IF ext = <<".", "json">>
        THEN [status |-> "returned", documents |-> "parsed",
              file_path |-> parts[1], logged |-> FALSE]
        ELSE IF ext = <<".", "gz">>
        THEN [status |-> "returned", documents |-> "parsed",
              file_path |-> splitext(parts[1])[1], logged |-> FALSE]
        \* logger.error(...); then "return documents, file_path" reads the
        \* local documents, which no branch has bound
        ELSE [status |-> "UnboundLocalError", documents |-> "unbound",
              file_path |-> parts[1], logged |-> TRUE]

Lexemes == {"data", "json", "gz", "txt", ".", "/"}
FileNames == UNION {[1..len -> Lexemes] : len \in 1..MaxNameLen}

InitLoad ==
    /\ json_file \in FileNames
    /\ file_path = <<>> /\ file_extension = <<>>
    /\ documents = "unbound" /\ logged = FALSE /\ lj_pc = "ready"
    /\ BtIdle /\ CkIdle /\ WnIdle /\ PadIdle

LoadJson ==
    /\ lj_pc = "ready"
    /\ LET r == load_json(json_file)
       IN  /\ lj_pc' = r.status
           /\ documents' = r.documents
           /\ file_path' = r.file_path
           /\ logged' = r.logged
    /\ file_extension' = splitext(json_file)[2]
    /\ UNCHANGED json_file
    /\ UNCHANGED <<btVars, ckVars, wnVars, padVars>>

NextLoad == LoadJson

SpecLoad == InitLoad /\ [][NextLoad]_vars

\* C6: called with a file name whose last extension is neither ".json" nor
\* ".gz", load_json logs an error and returns, raising nothing.
C6_UnrecognizedExtensionReturns ==
    (/\ lj_pc # "ready"
     /\ file_extension # <<".", "json">>
     /\ file_extension # <<".", "gz">>) =>
        (logged /\ lj_pc = "returned")

====
